---- MODULE Spec2Model ----
(***************************************************************************)
(* Model of export_hand.py: the Blender script that cuts the hand.L        *)
(* subtree out of an armature, moves forearm.L skin weights onto hand.L,   *)
(* drops vertex groups by name, mirrors and re-bases bones and vertices,   *)
(* and exports.  The script is straight-line code; each action below is    *)
(* one of its numbered steps (one loop iteration for the bone deletion),   *)
(* sequenced by pc.                                                        *)
(*                                                                         *)
(* Weights are integers in tenths (One = 1.0).  Positions are integer      *)
(* 3-vectors <<x, y, z>>.  mesh1.matrix_world is reduced to its X scale    *)
(* factor (-1 is the X-mirror the script's comments speak of).  Lights,    *)
(* materials and the armature object's own transform are left out: no      *)
(* step modelled here reads them.                                          *)
(***************************************************************************)
EXTENDS Integers, Sequences, FiniteSets, TLC

VARIABLES
    pc,            \* position in the script
    armature,      \* bpy.data.objects.get('Armature') is not None
    mesh1,         \* bpy.data.objects.get('Cube.000') is not None
    mesh2,         \* bpy.data.objects.get('Cube.005') is not None
    matrix_world,  \* X scale of mesh1.matrix_world
    bones,         \* names of arm_obj.data.edit_bones
    parent,        \* bone -> parent name or None
    head,          \* bone -> head position
    tail,          \* bone -> tail position
    vgroups,       \* names of mesh1.vertex_groups
    weight,        \* vertex -> group -> weight in tenths, or NoEntry
    vco,           \* vertex -> position
    offset,        \* the script's variable offset
    keep,          \* the script's set keep
    to_delete,     \* the part of the list to_delete not yet iterated
    exported,      \* export_scene.gltf has been called
    stages,        \* the stages completed so far, in order
    input          \* the asset as loaded (never changes)

vars == <<pc, armature, mesh1, mesh2, matrix_world, bones, parent, head, tail,
          vgroups, weight, vco, offset, keep, to_delete, exported, stages, input>>

(***************************************************************************)
(* Constants of the script                                                 *)
(***************************************************************************)
None == "None"

NoEntry == -1

One == 10

keepRoot == "hand.L"

forearm == "forearm.L"

Denylist ==
    {"ribs.001", "shoulder.L", "upper_arm.L", "forearm.L", "forearm.L.003",
     "shoulder.R", "upper_arm.R", "forearm.R", "forearm.R.003"}

(***************************************************************************)
(* Bounds of the model                                                     *)
(***************************************************************************)
MaxBones == 3

MaxGroups == 2

MaxCoord == 2

MaxYZ == 1

\* Bone and vertex-group names the inputs are built from, in edit_bones order.
BoneOrder ==
    <<"spine", "upper_arm.L", "forearm.L", "hand.L", "thumb.01.L", "finger.Ring.L">>

BoneNames == {BoneOrder[i] : i \in 1..Len(BoneOrder)}

\* The loop of step 3 handles each vertex on its own; one vertex carries
\* every case of it.
Verts == {0}

WeightVals == {0, 3, 6, 8}

(***************************************************************************)
(* Helpers                                                                 *)
(***************************************************************************)
Min(a, b) == IF a <= b THEN a ELSE b

Restrict(f, S) == [x \in S |-> f[x]]

\* Python's  sub in s  on strings.
Contains(s, sub) ==
    \E i \in 1..(Len(s) - Len(sub) + 1) : SubSeq(s, i, i + Len(sub) - 1) = sub

MirrorX(p) == <<-p[1], p[2], p[3]>>

VecSub(p, q) == <<p[1] - q[1], p[2] - q[2], p[3] - q[3]>>

Zero == <<0, 0, 0>>

\* A missing entry counts as weight 0 (except RuntimeError: hw = 0).
WeightOr0(w) == IF w = NoEntry THEN 0 ELSE w

(***************************************************************************)
(* Control flow: the order of the script's top-level statements.           *)
(***************************************************************************)
\* Steps 3 and 4 exchanged: the skeleton is pruned before the weight merge.
SuccessorExtractFirst(label) ==
    CASE label = "start"     -> "dup"
      [] label = "dup"       -> "apply"
      [] label = "apply"     -> "offset"
      [] label = "offset"    -> "collect"
      [] label = "collect"   -> "delete"
      [] label = "delete"    -> "transfer"
      [] label = "transfer"  -> "cleanup"
      [] label = "cleanup"   -> "mirror"
      [] label = "mirror"    -> "recompute"
      [] label = "recompute" -> "translate"
      [] label = "translate" -> "mesh"
      [] label = "mesh"      -> "export"
      [] label = "export"    -> "done"

Successor(label) ==
    CASE label = "start"     -> "dup"
      [] label = "dup"       -> "apply"
      [] label = "apply"     -> "offset"
      [] label = "offset"    -> "transfer"
      [] label = "transfer"  -> "cleanup"
      [] label = "cleanup"   -> "collect"
      [] label = "collect"   -> "delete"
      [] label = "delete"    -> "mirror"
      [] label = "mirror"    -> "recompute"
      [] label = "recompute" -> "translate"
      [] label = "translate" -> "mesh"
      [] label = "mesh"      -> "export"
      [] label = "export"    -> "done"


(***************************************************************************)
(* Step 3: weight transfer (lines 41-55)                                   *)
(***************************************************************************)
\* The sum written without the clamp.
MergedWeight_NoClamp(hw, fw) == hw + fw

\* The clamped sum written with mode 'ADD' instead of 'REPLACE'.
MergedWeight_Add(hw, fw) == hw + Min(hw + fw, One)

\* min(hw + fw, 1.0), written with mode 'REPLACE'.
MergedWeight(hw, fw) == Min(hw + fw, One)

\* The loop body without the test fw > 0.
TransferRow_Always(row) ==
    [row EXCEPT ![keepRoot] =
        MergedWeight(WeightOr0(row[keepRoot]), WeightOr0(row[forearm]))]

\* One pass of the loop body of lines 45-53 over the groups of one vertex.
TransferRow(row) ==
    LET fw == WeightOr0(row[forearm])
    IN  IF fw > 0
        THEN [row EXCEPT ![keepRoot] = MergedWeight(WeightOr0(row[keepRoot]), fw)]
        ELSE row

\* if forearm_vg and hand_vg
BothGroups(groups) == forearm \in groups /\ keepRoot \in groups

\* The vertex groups left by lines 42-54.
GroupsAfterTransfer(groups) ==
    IF BothGroups(groups) THEN groups \ {forearm} ELSE groups

\* The weights left by lines 42-54.
WeightsAfterTransfer(groups, w) ==
    IF BothGroups(groups)
    THEN [v \in DOMAIN w |-> Restrict(TransferRow(w[v]), groups \ {forearm})]
    ELSE w

(***************************************************************************)
(* Cleanup of vertex groups by name (lines 57-65)                          *)
(***************************************************************************)
removable(groups) ==
    {vg \in groups : Contains(vg, ".R") \/ vg \in Denylist}

(***************************************************************************)
(* Step 4: the kept subtree (lines 77-85)                                  *)
(***************************************************************************)
children(bone) == {c \in bones : parent[c] = bone}

\* collect without the recursion into bone.children.
collect_shallow(bone) == {bone}

RECURSIVE collect(_)
collect(bone) == {bone} \cup UNION {collect(c) : c \in children(bone)}

\* [b.name for b in edit_bones if b.name not in keep]
ToDelete(kept) == SelectSeq(BoneOrder, LAMBDA b : b \in bones /\ b \notin kept)

\* edit_bones.remove(b): the bone goes, its children move to its parent.
ParentAfterRemove(b) ==
    [c \in bones \ {b} |-> IF parent[c] = b THEN parent[b] ELSE parent[c]]

(***************************************************************************)
(* Rebase (lines 94-117)                                                   *)
(***************************************************************************)
\* The recomputation left out: offset keeps the value read in step 2.
StaleOffset == offset

\* offset = hand_l.head.copy(), read after the mirror loop.
OffsetAfterMirror == head[keepRoot]

\* Matrix.Translation(-offset) applied to the vertices.
TranslateVerts(co, off) == [v \in DOMAIN co |-> VecSub(co[v], off)]

\* transform_apply: matrix_world goes into the vertex data.
BakeVerts(co, sx) == [v \in DOMAIN co |-> <<sx * co[v][1], co[v][2], co[v][3]>>]

(***************************************************************************)
(* Actions                                                                 *)
(***************************************************************************)
\* The failure is swallowed and the script runs on to the export.
AbortSwallowed == pc' = "export"

\* raise SystemExit(1), or the exception of a failing statement.
Abort == pc' = "aborted"

CheckArmature ==
    /\ pc = "start"
    /\ IF ~armature THEN Abort ELSE pc' = Successor("start")
    /\ UNCHANGED <<armature, mesh1, mesh2, matrix_world, bones, parent, head, tail,
                   vgroups, weight, vco, offset, keep, to_delete, exported,
                   stages, input>>

RemoveDuplicate ==
    /\ pc = "dup"
    /\ mesh2' = FALSE
    /\ stages' = Append(stages, "discard")
    /\ pc' = Successor("dup")
    /\ UNCHANGED <<armature, mesh1, matrix_world, bones, parent, head, tail,
                   vgroups, weight, vco, offset, keep, to_delete, exported, input>>

ApplyTransform ==
    /\ pc = "apply"
    /\ IF ~mesh1
       THEN Abort /\ UNCHANGED <<vco, matrix_world, stages>>
       ELSE /\ vco' = BakeVerts(vco, matrix_world)
            /\ matrix_world' = 1
            /\ stages' = Append(stages, "bake")
            /\ pc' = Successor("apply")
    /\ UNCHANGED <<armature, mesh1, mesh2, bones, parent, head, tail, vgroups,
                   weight, offset, keep, to_delete, exported, input>>

GetOffset ==
    /\ pc = "offset"
    /\ IF keepRoot \notin bones \/ 0 \notin Verts
       THEN Abort /\ UNCHANGED offset
       ELSE offset' = head[keepRoot] /\ pc' = Successor("offset")
    /\ UNCHANGED <<armature, mesh1, mesh2, matrix_world, bones, parent, head, tail,
                   vgroups, weight, vco, keep, to_delete, exported, stages, input>>

TransferWeights ==
    /\ pc = "transfer"
    /\ weight' = WeightsAfterTransfer(vgroups, weight)
    /\ vgroups' = GroupsAfterTransfer(vgroups)
    /\ stages' = Append(stages, "merge")
    /\ pc' = Successor("transfer")
    /\ UNCHANGED <<armature, mesh1, mesh2, matrix_world, bones, parent, head, tail,
                   vco, offset, keep, to_delete, exported, input>>

RemoveUnused ==
    /\ pc = "cleanup"
    /\ vgroups' = vgroups \ removable(vgroups)
    /\ weight' = [v \in DOMAIN weight |-> Restrict(weight[v], vgroups')]
    /\ stages' = Append(stages, "cleanup")
    /\ pc' = Successor("cleanup")
    /\ UNCHANGED <<armature, mesh1, mesh2, matrix_world, bones, parent, head, tail,
                   vco, offset, keep, to_delete, exported, input>>

Collect ==
    /\ pc = "collect"
    /\ IF keepRoot \notin bones
       THEN Abort /\ UNCHANGED <<keep, to_delete>>
       ELSE /\ keep' = collect(keepRoot)
            /\ to_delete' = ToDelete(keep')
            /\ pc' = Successor("collect")
    /\ UNCHANGED <<armature, mesh1, mesh2, matrix_world, bones, parent, head, tail,
                   vgroups, weight, vco, offset, exported, stages, input>>

DeleteBone ==
    /\ pc = "delete"
    /\ to_delete # <<>>
    /\ LET bname == Head(to_delete)
       IN  IF bname \in bones
           THEN /\ bones' = bones \ {bname}
                /\ parent' = ParentAfterRemove(bname)
                /\ head' = Restrict(head, bones')
                /\ tail' = Restrict(tail, bones')
           ELSE UNCHANGED <<bones, parent, head, tail>>
    /\ to_delete' = Tail(to_delete)
    /\ UNCHANGED <<pc, armature, mesh1, mesh2, matrix_world, vgroups, weight, vco,
                   offset, keep, exported, stages, input>>

MakeRoot ==
    /\ pc = "delete"
    /\ to_delete = <<>>
    /\ parent' = [parent EXCEPT ![keepRoot] = None]
    /\ stages' = Append(stages, "extract")
    /\ pc' = Successor("delete")
    /\ UNCHANGED <<armature, mesh1, mesh2, matrix_world, bones, head, tail, vgroups,
                   weight, vco, offset, keep, to_delete, exported, input>>

MirrorBones ==
    /\ pc = "mirror"
    /\ head' = [b \in bones |-> MirrorX(head[b])]
    /\ tail' = [b \in bones |-> MirrorX(tail[b])]
    /\ pc' = Successor("mirror")
    /\ UNCHANGED <<armature, mesh1, mesh2, matrix_world, bones, parent, vgroups,
                   weight, vco, offset, keep, to_delete, exported, stages, input>>

RecomputeOffset ==
    /\ pc = "recompute"
    /\ offset' = OffsetAfterMirror
    /\ pc' = Successor("recompute")
    /\ UNCHANGED <<armature, mesh1, mesh2, matrix_world, bones, parent, head, tail,
                   vgroups, weight, vco, keep, to_delete, exported, stages, input>>

TranslateBones ==
    /\ pc = "translate"
    /\ head' = [b \in bones |-> VecSub(head[b], offset)]
    /\ tail' = [b \in bones |-> VecSub(tail[b], offset)]
    /\ pc' = Successor("translate")
    /\ UNCHANGED <<armature, mesh1, mesh2, matrix_world, bones, parent, vgroups,
                   weight, vco, offset, keep, to_delete, exported, stages, input>>

TranslateMesh ==
    /\ pc = "mesh"
    /\ vco' = TranslateVerts(vco, offset)
    /\ stages' = Append(stages, "rebase")
    /\ pc' = Successor("mesh")
    /\ UNCHANGED <<armature, mesh1, mesh2, matrix_world, bones, parent, head, tail,
                   vgroups, weight, offset, keep, to_delete, exported, input>>

Export ==
    /\ pc = "export"
    /\ exported' = TRUE
    /\ stages' = Append(stages, "export")
    /\ pc' = Successor("export")
    /\ UNCHANGED <<armature, mesh1, mesh2, matrix_world, bones, parent, head, tail,
                   vgroups, weight, vco, offset, keep, to_delete, input>>

Next ==
    \/ CheckArmature
    \/ RemoveDuplicate
    \/ ApplyTransform
    \/ GetOffset
    \/ TransferWeights
    \/ RemoveUnused
    \/ Collect
    \/ DeleteBone
    \/ MakeRoot
    \/ MirrorBones
    \/ RecomputeOffset
    \/ TranslateBones
    \/ TranslateMesh
    \/ Export


(***************************************************************************)
(* Inputs: the assets the script is run on                                 *)
(***************************************************************************)
Index(b) == CHOOSE i \in 1..Len(BoneOrder) : BoneOrder[i] = b

DefaultHead(b) == <<Index(b) - 2, 1, 0>>

DefaultTail(b) == <<Index(b) - 2, 2, 0>>

RECURSIVE Up(_, _, _)
Up(p, b, n) == IF n = 0 \/ b = None THEN b ELSE Up(p, p[b], n - 1)

\* Blender keeps the bone hierarchy a forest: every parent chain ends.
Forests(B) ==
    {p \in [B -> B \cup {None}] : \A b \in B : Up(p, b, Cardinality(B)) = None}

Chain ==
    [b \in {"forearm.L", "hand.L", "thumb.01.L"} |->
        CASE b = "forearm.L"  -> None
          [] b = "hand.L"     -> "forearm.L"
          [] b = "thumb.01.L" -> "hand.L"]

Arm ==
    [b \in BoneNames |->
        CASE b = "spine"         -> None
          [] b = "upper_arm.L"   -> "spine"
          [] b = "forearm.L"     -> "upper_arm.L"
          [] b = "hand.L"        -> "forearm.L"
          [] b = "thumb.01.L"    -> "hand.L"
          [] b = "finger.Ring.L" -> "hand.L"]

HandOnly ==
    [b \in {"hand.L", "thumb.01.L"} |-> IF b = "hand.L" THEN None ELSE "hand.L"]

ForearmBelow ==
    [b \in {"hand.L", "forearm.L"} |-> IF b = "hand.L" THEN None ELSE "hand.L"]

SkinSkeletons == {Arm, HandOnly, ForearmBelow}

DefaultWeight ==
    [v \in Verts |-> [g \in {"forearm.L", "hand.L"} |->
                         IF g = "forearm.L" THEN 8 ELSE 6]]

DefaultVco == [v \in Verts |-> <<-1, 1, 0>>]

Asset(p, w, co, sx, dup) ==
    [armature |-> TRUE, mesh1 |-> TRUE, mesh2 |-> dup, matrix_world |-> sx,
     bones |-> DOMAIN p, parent |-> p,
     head |-> [b \in DOMAIN p |-> DefaultHead(b)],
     tail |-> [b \in DOMAIN p |-> DefaultTail(b)],
     vgroups |-> DOMAIN w[0], weight |-> w, vco |-> co]

NoArmature ==
    [Asset(<<>>, DefaultWeight, DefaultVco, -1, TRUE) EXCEPT !.armature = FALSE]

NoMesh == [Asset(Chain, DefaultWeight, DefaultVco, -1, TRUE) EXCEPT !.mesh1 = FALSE]

SkeletonInputs ==
    {Asset(p, DefaultWeight, DefaultVco, -1, dup) :
        p \in UNION {Forests(B) : B \in {X \in SUBSET BoneNames :
                                            Cardinality(X) <= MaxBones}},
        dup \in BOOLEAN}
    \cup {NoArmature, NoMesh}

SkinInputs ==
    {Asset(p, w, DefaultVco, -1, TRUE) :
        p \in SkinSkeletons,
        w \in UNION {[Verts -> [G -> WeightVals \cup {NoEntry}]] :
                        G \in {X \in SUBSET BoneNames : Cardinality(X) <= MaxGroups}}}

Points ==
    {<<x, y, z>> : x \in -MaxCoord..MaxCoord, y \in 0..MaxYZ, z \in 0..MaxYZ}

GeometryInputs ==
    {[Asset(Chain, DefaultWeight, [v \in Verts |-> q], sx, TRUE) EXCEPT
         !.head[keepRoot] = h, !.tail[keepRoot] = <<h[1], h[2] + 1, h[3]>>] :
        h \in Points, q \in Points, sx \in {-1, 1}}

InitFrom(i) ==
    /\ pc = "start"
    /\ input = i
    /\ armature = i.armature
    /\ mesh1 = i.mesh1
    /\ mesh2 = i.mesh2
    /\ matrix_world = i.matrix_world
    /\ bones = i.bones
    /\ parent = i.parent
    /\ head = i.head
    /\ tail = i.tail
    /\ vgroups = i.vgroups
    /\ weight = i.weight
    /\ vco = i.vco
    /\ offset = Zero
    /\ keep = {}
    /\ to_delete = <<>>
    /\ exported = FALSE
    /\ stages = <<>>

Init == \E i \in SkeletonInputs : InitFrom(i)

InitSkin == \E i \in SkinInputs : InitFrom(i)

InitGeometry == \E i \in GeometryInputs : InitFrom(i)

Spec == Init /\ [][Next]_vars

SpecSkin == InitSkin /\ [][Next]_vars

SpecGeometry == InitGeometry /\ [][Next]_vars


(***************************************************************************)
(* Vocabulary of the properties                                            *)
(***************************************************************************)
Range(q) == {q[k] : k \in 1..Len(q)}

IsPrefix(q, r) == Len(q) <= Len(r) /\ \A k \in 1..Len(q) : q[k] = r[k]

Completed(stage) == stage \in Range(stages)

AtExport == pc \in {"export", "done"}

\* The bones on the parent chain from b upwards, b included.
RECURSIVE PathUp(_, _)
PathUp(p, b) == IF b = None THEN {} ELSE {b} \cup PathUp(p, p[b])

\* keepRoot and its descendants in the input, found by walking upwards
\* from every bone (the script walks downwards from keepRoot).
Subtree0 == {b \in input.bones : keepRoot \in PathUp(input.parent, b)}

\* The bones the extraction removes.
Removed0 == input.bones \ Subtree0

\* A vertex's entry in a group; NoEntry when the group or the entry is missing.
Entry0(v, g) == IF g \in input.vgroups THEN input.weight[v][g] ELSE NoEntry

EntryNow(v, g) == IF g \in vgroups THEN weight[v][g] ELSE NoEntry

W0(v, g) == WeightOr0(Entry0(v, g))

WNow(v, g) == WeightOr0(EntryNow(v, g))

RECURSIVE Sum0(_, _)
Sum0(v, S) ==
    IF S = {} THEN 0 ELSE LET g == CHOOSE x \in S : TRUE IN W0(v, g) + Sum0(v, S \ {g})

RECURSIVE SumNow(_, _)
SumNow(v, S) ==
    IF S = {} THEN 0 ELSE LET g == CHOOSE x \in S : TRUE IN WNow(v, g) + SumNow(v, S \ {g})

(***************************************************************************)
(* C1                                                                      *)
(***************************************************************************)
\* C1: once the extraction has completed, the bones are exactly keepRoot and
\* its transitive descendants in the input, keepRoot has no parent, and
\* every other kept bone has the parent it had in the input.
C1_ExtractIsSubtree ==
    Completed("extract") =>
        /\ bones = Subtree0
        /\ parent[keepRoot] = None
        /\ \A b \in bones \ {keepRoot} : parent[b] = input.parent[b]

\* A run in which keepRoot had a parent, kept a descendant and lost bones.
C1_Witness ==
    /\ Completed("extract")
    /\ input.parent[keepRoot] # None
    /\ Cardinality(bones) >= 2
    /\ Removed0 # {}
    /\ bones = Subtree0


(***************************************************************************)
(* C6                                                                      *)
(***************************************************************************)
ClaimedOrder ==
    <<"discard", "bake", "extract", "merge", "cleanup", "rebase", "export">>

CodeOrder ==
    <<"discard", "bake", "merge", "cleanup", "extract", "rebase", "export">>

C7_AbortNeverExports ==
    /\ (~input.armature \/ keepRoot \notin input.bones) => ~exported
    /\ pc = "aborted" => (~exported /\ ~ENABLED Next)
    /\ exported => (Completed("extract") /\ Completed("merge") /\ Completed("rebase"))

\* A run that aborted because keepRoot is not in the skeleton.
C7_Witness ==
    /\ pc = "aborted"
    /\ input.armature
    /\ input.bones # {}
    /\ keepRoot \notin input.bones


(***************************************************************************)
(* C2                                                                      *)
(***************************************************************************)
\* C2 as stated: after the merge, every vertex's weight on mergeTarget is
\* min(1, its previous mergeTarget weight + the sum of its previous weights
\* over all bones removed from the skeleton).
C2_MergesAllRemoved ==
    Completed("merge") =>
        \A v \in Verts :
            WNow(v, keepRoot) = Min(One, W0(v, keepRoot) + Sum0(v, Removed0))

\* C2 amended: when the mesh has a hand.L group, every vertex's weight on
\* hand.L after the merge is min(1, previous hand.L weight + previous
\* forearm.L weight), the weights of no other group added; when it has no
\* hand.L group, none is created.
C2_MergesForearmOnly ==
    Completed("merge") =>
        IF keepRoot \in input.vgroups
        THEN /\ keepRoot \in vgroups
             /\ \A v \in Verts :
                    WNow(v, keepRoot) = Min(One, W0(v, keepRoot) + W0(v, forearm))
        ELSE keepRoot \notin vgroups

\* A vertex whose forearm.L weight was added to its hand.L weight, unclamped.
C2_Witness ==
    /\ Completed("merge")
    /\ \E v \in Verts :
           /\ W0(v, forearm) > 0
           /\ W0(v, keepRoot) > 0
           /\ WNow(v, keepRoot) = W0(v, keepRoot) + W0(v, forearm)
           /\ WNow(v, keepRoot) < One

(***************************************************************************)
(* C3                                                                      *)
(***************************************************************************)
\* C3: when the exporter is invoked, no vertex group of the mesh is named
\* after a bone that was removed from the skeleton.
C3_NoGroupOfRemovedBone == AtExport => vgroups \cap Removed0 = {}

(***************************************************************************)
(* C8                                                                      *)
(***************************************************************************)
\* C8 as stated: after the merge every vertex's mergeTarget weight is at
\* most 1, and a vertex with no positive weight on any removed bone keeps
\* its mergeTarget entry (or its absence) as it was.
C8_UnchangedWithoutRemoved ==
    Completed("merge") =>
        \A v \in Verts :
            /\ WNow(v, keepRoot) <= One
            /\ (\A b \in Removed0 : W0(v, b) = 0) =>
                   EntryNow(v, keepRoot) = Entry0(v, keepRoot)

\* C8 amended: after the merge every vertex's hand.L weight is at most 1,
\* and a vertex with no positive weight in the group forearm.L keeps its
\* hand.L entry (or its absence) as it was.
C8_UnchangedWithoutForearm ==
    Completed("merge") =>
        \A v \in Verts :
            /\ WNow(v, keepRoot) <= One
            /\ W0(v, forearm) = 0 => EntryNow(v, keepRoot) = Entry0(v, keepRoot)

\* Both groups exist, the vertex has a forearm.L entry of weight 0 and no
\* hand.L entry, and after the merge it still has no hand.L entry.
C8_Witness ==
    /\ Completed("merge")
    /\ BothGroups(input.vgroups)
    /\ \E v \in Verts :
           /\ Entry0(v, forearm) = 0
           /\ Entry0(v, keepRoot) = NoEntry
           /\ EntryNow(v, keepRoot) = NoEntry

C10_KeptGroupsUntouched ==
    AtExport =>
        \A b \in (bones \ {keepRoot}) \cap input.vgroups :
            /\ b \in vgroups
            /\ \A v \in Verts : weight[v][b] = input.weight[v][b]


(***************************************************************************)
(* C4                                                                      *)
(***************************************************************************)
\* C4: when the bones and the vertices are translated, offset is the root
\* head as it is after the mirror (the mirrored input head), and once the
\* bones are translated the root head is the zero vector.
C4_OffsetAfterMirror ==
    /\ pc \in {"translate", "mesh"} => offset = MirrorX(input.head[keepRoot])
    /\ pc \in {"mesh", "export", "done"} => head[keepRoot] = Zero

\* A finished run whose root head was off the mirror plane, so that the
\* value read before the mirror differs from the one used.
C4_Witness ==
    /\ pc = "done"
    /\ input.head[keepRoot][1] # 0
    /\ offset = MirrorX(input.head[keepRoot])
    /\ offset # input.head[keepRoot]
    /\ head[keepRoot] = Zero

(***************************************************************************)
(* C5                                                                      *)
(***************************************************************************)
\* C5: a vertex and a bone head or tail that are at the same point in the
\* input are at the same point at export.
C5_CoLocated ==
    AtExport =>
        \A v \in Verts, b \in bones :
            /\ input.vco[v] = input.head[b] => vco[v] = head[b]
            /\ input.vco[v] = input.tail[b] => vco[v] = tail[b]

====
